---- MODULE Spec2Model ----
(***************************************************************************)
(* Model of the generic datatable component (datatable.js, the version     *)
(* with related-field sorting): the in-memory record list, its pagination  *)
(* window, the cross-page selection and the asynchronous record fetch.     *)
(*                                                                         *)
(* Every action is one event-loop task of the component: a public setter   *)
(* or method, a template event handler, or the completion of a remote      *)
(* call, followed by the re-render in which the template reads the         *)
(* pagesInfo getter.                                                       *)
(***************************************************************************)
EXTENDS Integers, Sequences, FiniteSets, TLC

\* ------------------------------------------------------------------ bounds
\* Largest number of records the remote query returns.
MaxRecords == 3
\* Largest page size a host configures or sets (besides the default).
MaxPageSize == 2
\* Largest number of record fetches in flight at once.
MaxInFlight == 2
\* Largest number of pages that carry a recorded selection at once.
MaxSelectedPages == 1
\* Largest number of rows the table reports as selected on one page.
MaxRowSelection == 1

\* --------------------------------------------------------- program constants
\* pageSize getter: a blank _pageSize becomes 10.
DefaultPageSize == 10

\* ------------------------------------------------------------------ records
\* The field value of a record is <<v>> when present and <<>> when the record
\* has no such field (undefined in the program).
NameOf(id) == IF id % 3 = 0 THEN << >> ELSE << (id % 2) + 1 >>

Record(id) == [Id |-> id, Name |-> NameOf(id)]

\* The record lists the remote query can answer with: the first n records
\* of the table, n = 0 being the empty answer.
Responses == { [i \in 1..n |-> Record(i)] : n \in 0..MaxRecords }

PageSizes == 1..MaxPageSize

SortFields == {"Name"}

SortDirections == {"asc", "desc"}

\* Tag names of event targets.
DatatableTag == "LIGHTNING-DATATABLE"

ButtonTag == "LIGHTNING-BUTTON-ICON"

VARIABLES
    _recordsListInAllPages, \* the full result set (a sequence of records)
    listUndefined,          \* TRUE when _recordsListInAllPages is undefined
    recordsListInPage,      \* the visible page
    _startFromIndex,        \* the offset
    _pageSize,              \* backing field of the pageSize property
    _paginationInfo,        \* [currentPage, totalPages]
    selectedRowsMap,        \* Id -> row, the cross-page selection
    selectedRowsPagesMap,   \* page number -> rows selected on that page
    _originTagRowSelectionLocal,
    tableProps,             \* [sortedBy, sortedDirection, selectedRows, isLoading]
    hideTableSpinner,
    showSpinner,
    userMessage,
    error,
    _initDone,
    fieldInfoInFlight,      \* the getFieldInfo call has not answered yet
    fetchesInFlight,        \* number of fetchDataMap calls that have not answered
    threw,                  \* history: the last handler ended in a TypeError
    dispatched,             \* history: the rowselection event the last task raised
    config,                 \* the option keys the host supplies: key -> value
    properties,             \* the option fields of the component and of tableProps
    configStage,            \* how far the config has been applied
    thisObject,             \* a record handed to the field resolvers
    fieldRelation,          \* the dotted path handed to them, split at the dots
    resolution,             \* what the two resolvers returned for them
    walk                    \* history: windows seen by next, next, ... from offset 0

vars == << _recordsListInAllPages, listUndefined, recordsListInPage,
           _startFromIndex, _pageSize, _paginationInfo, selectedRowsMap,
           selectedRowsPagesMap, _originTagRowSelectionLocal, tableProps,
           hideTableSpinner, showSpinner, userMessage, error, _initDone,
           fieldInfoInFlight, fetchesInFlight, threw, dispatched, config,
           properties, configStage, thisObject, fieldRelation, resolution, walk >>

\* ------------------------------------------------------------ JS primitives
Min(a, b) == IF a < b THEN a ELSE b

Max(a, b) == IF a > b THEN a ELSE b

\* The % operator: the remainder takes the sign of the dividend.
JsRem(a, b) == IF a >= 0 THEN a % b ELSE 0 - ((0 - a) % b)

\* (a / b) - ((a % b) / b): the quotient truncated toward zero.
JsQuot(a, b) == (a - JsRem(a, b)) \div b

\* Array.prototype.slice(start, end): a negative index counts from the end.
JsIndex(len, k) == IF k < 0 THEN Max(len + k, 0) ELSE Min(k, len)

JsSlice(s, start, end) ==
    LET from == JsIndex(Len(s), start)
        to   == JsIndex(Len(s), end)
    IN  IF from >= to THEN << >> ELSE SubSeq(s, from + 1, to)

\* Array.prototype.slice(start): up to the end of the array.
JsSliceFrom(s, start) == JsSlice(s, start, Len(s))

\* ------------------------------------------------------------ the getters
\* pageSize getter: parseInt of the backing field (the hosts of this model
\* supply positive integers, which parseInt returns unchanged).
pageSize(backing) == backing

\* Mutant: the quotient plus one, also at exact multiples.
totalPagesRoundedUp(len, ps) == JsQuot(len, ps) + 1

\* processRecordsResult: the total page count of a list of len records.
totalPagesOf(len, ps) ==
    JsQuot(len, ps) + (IF JsRem(len, ps) = 0 THEN 0 ELSE 1)

\* pagesInfo getter: recomputes currentPage while the list has records and
\* leaves _paginationInfo alone otherwise.
currentPageOf(start, ps) ==
    JsQuot(start + 1, ps) + (IF JsRem(start + 1, ps) = 0 THEN 0 ELSE 1)

pagesInfo(list, undef, start, ps, info) ==
    IF ~undef /\ Len(list) > 0
    THEN [info EXCEPT !.currentPage = currentPageOf(start, ps)]
    ELSE info

\* pagesInfo getter: the page numbers of the text it returns, 'Page 0 of 0'
\* when the list is undefined or empty.
pagesInfoShown(list, undef, start, ps, info) ==
    IF ~undef /\ Len(list) > 0
    THEN pagesInfo(list, undef, start, ps, info)
    ELSE [currentPage |-> 0, totalPages |-> 0]

\* ------------------------------------------------------- window and rows
\* Mutant: the slice ends at pageSize instead of pageSize + offset.
sliceEndsAtPageSize(list, start, ps, lastSetOfRecords, lastNumberOfRecords) ==
    IF lastSetOfRecords
    THEN JsSliceFrom(list, lastNumberOfRecords)
    ELSE JsSlice(list, start, ps)

\* processRecordsListPagination: the slice that becomes the visible page.
processRecordsListPagination(list, start, ps, lastSetOfRecords, lastNumberOfRecords) ==
    IF lastSetOfRecords
    THEN JsSliceFrom(list, lastNumberOfRecords)
    ELSE JsSlice(list, start, ps + start)

\* processTableRows: the Ids of the visible page that are keys of the
\* selection map, in page order.
processTableRows(page, selMap) ==
    LET marked == SelectSeq(page, LAMBDA row : row.Id \in DOMAIN selMap)
    IN  [i \in 1..Len(marked) |-> marked[i].Id]

\* doDataReset: clears the sort indication of tableProps.
doDataResetProps(props) ==
    [props EXCEPT !.sortedBy = "", !.sortedDirection = ""]

\* handleSpinner: the spinner flags follow showSpinner unless the host hides
\* the table spinner.
handleSpinnerFlag(hide, old, new) == IF ~hide THEN new ELSE old

\* handleRowSelection: the selection map rebuilt from the per-page record.
RowsOfPages(pagesMap) ==
    UNION { { pagesMap[k][i] : i \in 1..Len(pagesMap[k]) } : k \in DOMAIN pagesMap }

\* Mutant: every row filed under the Id that follows its own.
mergePagesUnderNextId(pagesMap) ==
    LET rows == RowsOfPages(pagesMap)
    IN  [id \in { r.Id + 1 : r \in rows } |-> CHOOSE r \in rows : r.Id + 1 = id]

\* The map of the recorded rows, keyed by Id.
mergePages(pagesMap) ==
    LET rows == RowsOfPages(pagesMap)
    IN  [id \in { r.Id : r \in rows } |-> CHOOSE r \in rows : r.Id = id]

\* Mutant: the event carries an empty selection.
rowselectionDetailEmpty(selMap) ==
    [selectedRows |-> {}, selectedRowsMap |-> << >>]

\* handleRowSelection: the detail of the rowselection event it dispatches,
\* the rows of the selection map and the map itself.
rowselectionDetail(selMap) ==
    [selectedRows |-> { selMap[id] : id \in DOMAIN selMap }, selectedRowsMap |-> selMap]

\* ------------------------------------------------------------------- sort
\* relatedFieldValue: the value of a field of a record, << >> when the
\* record has no such field.
relatedFieldValue(anObject, relatedField) ==
    IF relatedField \in DOMAIN anObject THEN anObject[relatedField] ELSE << >>

\* !value: undefined, null, 0, "" and false are falsy.
Falsy(value) == value = << >> \/ value = << 0 >>

\* The comparator handleSort passes to Array.prototype.sort.
sortComparator(a, b, sortedBy, sortedDirection) ==
    LET aFieldValue == relatedFieldValue(a, sortedBy)
        bFieldValue == relatedFieldValue(b, sortedBy)
    IN  IF Falsy(aFieldValue) THEN 1
        ELSE IF Falsy(bFieldValue) THEN 0 - 1
        ELSE IF sortedDirection = "asc"
             THEN IF aFieldValue[1] < bFieldValue[1] THEN 0 - 1
                  ELSE IF aFieldValue[1] > bFieldValue[1] THEN 1
                  ELSE IF a.Id < b.Id THEN 0 - 1 ELSE 1
             ELSE IF aFieldValue[1] < bFieldValue[1] THEN 1
                  ELSE IF aFieldValue[1] > bFieldValue[1] THEN 0 - 1
                  ELSE IF a.Id > b.Id THEN 0 - 1 ELSE 1

IndexPermutations(n) == { f \in [1..n -> 1..n] : \A i, j \in 1..n : i # j => f[i] # f[j] }

\* Mutant: the sort loses the last record of the list.
SortOutcomesDroppingLast(list, sortedBy, sortedDirection) ==
    { SubSeq(list, 1, Len(list) - 1) }

\* Array.prototype.sort: the list permuted so that each row precedes the rows
\* the comparator puts after it.  Where the comparator contradicts itself
\* (two rows with a falsy value: each is reported greater than the other)
\* the order is left to the engine, so every order of those rows is possible.
SortOutcomes(list, sortedBy, sortedDirection) ==
    LET n == Len(list)
        Ordered(q) ==
            \A i, j \in 1..n : i < j =>
                \/ sortComparator(q[i], q[j], sortedBy, sortedDirection) < 0
                \/ /\ sortComparator(q[i], q[j], sortedBy, sortedDirection) > 0
                   /\ sortComparator(q[j], q[i], sortedBy, sortedDirection) > 0
    IN  { q \in { [i \in 1..n |-> list[f[i]]] : f \in IndexPermutations(n) } : Ordered(q) }

\* ------------------------------------------------------------------ config
\* Values of the config are named by tokens: "undefined" is the value of a
\* key that is not there, "false", "0" and "" are the falsy values a host can
\* supply, "x" stands for any truthy one.
ConfigValues == {"false", "0", "", "x"}

JsFalsy(value) == value \in {"undefined", "null", "false", "0", ""}

\* a || b
JsOr(a, b) == IF JsFalsy(a) THEN b ELSE a

\* object[key], undefined when the object has no such key.
JsGet(object, key) == IF key \in DOMAIN object THEN object[key] ELSE "undefined"

\* The top-level options setPropertiesFromConfig reads under two keys into a
\* plain field of the component.
TopLevelOptions ==
    { [kebab |-> "object-name", camel |-> "objectName"],
      [kebab |-> "sort-by", camel |-> "sortBy"],
      [kebab |-> "sort-asc", camel |-> "sortAsc"],
      [kebab |-> "query-type", camel |-> "queryType"],
      [kebab |-> "hide-pagination", camel |-> "hidePagination"],
      [kebab |-> "hide-table-spinner", camel |-> "hideTableSpinner"] }

\* The table options setTableProperties reads under two keys, with the
\* default setTableProperty falls back to.
TableOptions ==
    { [kebab |-> "hide-checkbox-column", camel |-> "hideCheckboxColumn", default |-> "false"],
      [kebab |-> "show-row-number-column", camel |-> "showRowNumberColumn", default |-> "false"],
      [kebab |-> "row-number-offset", camel |-> "rowNumberOffset", default |-> "0"],
      [kebab |-> "resize-column-disabled", camel |-> "resizeColumnDisabled", default |-> "false"],
      [kebab |-> "min-column-width", camel |-> "minColumnWidth", default |-> "50px"],
      [kebab |-> "max-column-width", camel |-> "maxColumnWidth", default |-> "1000px"],
      [kebab |-> "resize-step", camel |-> "resizeStep", default |-> "10px"],
      [kebab |-> "default-sort-direction", camel |-> "defaultSortDirection", default |-> "asc"],
      [kebab |-> "enable-infinite-loading", camel |-> "enableInfiniteLoading", default |-> "false"],
      [kebab |-> "load-more-offset", camel |-> "loadMoreOffset", default |-> "false"],
      [kebab |-> "is-loading", camel |-> "isLoading", default |-> "false"],
      [kebab |-> "max-row-selection", camel |-> "maxRowSelection", default |-> "1000"],
      [kebab |-> "selected-rows", camel |-> "selectedRows", default |-> "[]"],
      [kebab |-> "draft-values", camel |-> "draftValues", default |-> "null"],
      [kebab |-> "hide-table-header", camel |-> "hideTableHeader", default |-> "false"],
      [kebab |-> "suppress-bottom-bar", camel |-> "suppressBottomBar", default |-> "false"] }

\* The field initializers of the class.
FieldInitializers ==
    [name \in { option.camel : option \in TopLevelOptions } |->
        CASE name = "queryType" -> "SOQL"
          [] name = "hidePagination" -> "false"
          [] name = "hideTableSpinner" -> "false"
          [] OTHER -> "undefined"]

\* setPropertiesFromConfig: a field is assigned when the config has either
\* key, and then gets config[kebab] || config[camel].
setPropertiesFromConfig(cfg, fields) ==
    [name \in DOMAIN fields |->
        LET option == CHOOSE o \in TopLevelOptions : o.camel = name
        IN  IF option.kebab \in DOMAIN cfg \/ option.camel \in DOMAIN cfg
            THEN JsOr(JsGet(cfg, option.kebab), JsGet(cfg, option.camel))
            ELSE fields[name]]

\* setTableProperty: tableConfig[camel] || tableConfig[kebab] when the table
\* config has either key, the default otherwise.
setTableProperty(tableConfig, option) ==
    IF option.camel \in DOMAIN tableConfig \/ option.kebab \in DOMAIN tableConfig
    THEN JsOr(JsGet(tableConfig, option.camel), JsGet(tableConfig, option.kebab))
    ELSE option.default

\* setTableProperties: every table option is written to tableProps.
setTableProperties(tableConfig, fields) ==
    [name \in DOMAIN fields \cup { option.camel : option \in TableOptions } |->
        IF \E option \in TableOptions : option.camel = name
        THEN setTableProperty(tableConfig, CHOOSE o \in TableOptions : o.camel = name)
        ELSE fields[name]]

\* ------------------------------------------------------- field resolution
\* Largest number of segments of a dotted path.
MaxPathLength == 2

\* A JavaScript value: an object with its own fields, or a primitive named by
\* its kind ("x" stands for any truthy primitive).
JsValue(kind, fields) == [kind |-> kind, fields |-> fields]

JsUndefined == JsValue("undefined", << >>)

JsNull == JsValue("null", << >>)

JsPrimitives == { JsValue(kind, << >>) : kind \in {"null", "0", "x"} }

FieldNames == {"a", "b"}

\* Objects with some of the fields, each holding one of the values.
JsObjects(values) ==
    { JsValue("object", [name \in names |-> held[name]]) :
        names \in SUBSET FieldNames, held \in [FieldNames -> values] }

\* Records: objects whose fields hold primitives or objects of primitives.
RecordShapes == JsObjects(JsPrimitives \cup JsObjects(JsPrimitives))

\* The segments between the dots of a path: field names, one of them with a
\* blank after the dot ("a. b").
PathSegments == {"a", "b", " b"}

\* String.prototype.trim on a segment.
JsTrim(segment) == IF segment = " b" THEN "b" ELSE segment

\* relatedField.split('.'): the paths, as their segments.
FieldRelations == UNION { [1..n -> PathSegments] : n \in 1..MaxPathLength }

\* A value in a condition: objects and non-empty, non-zero primitives.
JsTruthy(value) == value.kind \in {"object", "x"}

\* value[key]: undefined for a missing field and for any key of a primitive.
JsProperty(value, key) ==
    IF value.kind = "object" /\ key \in DOMAIN value.fields
    THEN value.fields[key]
    ELSE JsUndefined

\* relatedFieldValue along a split path: reduce with
\* previous ? previous[current] : null, starting at the object.
RECURSIVE relatedFieldValueAlong(_, _)
relatedFieldValueAlong(previous, segments) ==
    IF segments = << >> THEN previous
    ELSE relatedFieldValueAlong(IF JsTruthy(previous)
                                THEN JsProperty(previous, Head(segments))
                                ELSE JsNull,
                                Tail(segments))

\* getFieldValueFromObject: the loop steps into the trimmed segment while
\* the value is truthy and keeps the value otherwise.
RECURSIVE getFieldValueFromObject(_, _)
getFieldValueFromObject(objectFieldValue, segments) ==
    IF segments = << >> THEN objectFieldValue
    ELSE getFieldValueFromObject(IF JsTruthy(objectFieldValue)
                                 THEN JsProperty(objectFieldValue, JsTrim(Head(segments)))
                                 ELSE objectFieldValue,
                                 Tail(segments))

\* ---------------------------------------------------------------- messages
InitMessage == "Please wait..."

SearchMessage == "Searching..."

\* Mutant: an empty result leaves the message blank.
NoRecordsMessageBlank == ""

\* userMessages getter: the default noRecords message.
NoRecordsMessage == "NO RECORDS FOUND"

SoslMinCharsError == "Please enter at least 2 characters to search"

\* Mutant: handleError leaves the error field blank.
ErrorMessageBlank == ""

\* handleError: the text left in the error field.
ErrorMessage == "Fetch failed. Please check console for details."

NoPages == [currentPage |-> 0, totalPages |-> 0]

NoWalk == [windows |-> << >>, stage |-> "none"]

FreshWalk(page) == [windows |-> << page >>, stage |-> "next"]

\* ------------------------------------------------------------------- Init
\* The component after construction, before it is connected.
Init ==
    /\ _recordsListInAllPages = << >>
    /\ listUndefined = FALSE
    /\ recordsListInPage = << >>
    /\ _startFromIndex = 0
    /\ _pageSize = DefaultPageSize
    /\ _paginationInfo = NoPages
    /\ selectedRowsMap = << >>
    /\ selectedRowsPagesMap = << >>
    /\ _originTagRowSelectionLocal = "undefined"
    /\ tableProps = [sortedBy |-> "", sortedDirection |-> "",
                     selectedRows |-> << >>, isLoading |-> FALSE]
    /\ hideTableSpinner = FALSE
    /\ showSpinner = FALSE
    /\ userMessage = InitMessage
    /\ error = ""
    /\ _initDone = FALSE
    /\ fieldInfoInFlight = FALSE
    /\ fetchesInFlight = 0
    /\ threw = FALSE
    /\ config = << >>
    /\ properties = FieldInitializers
    /\ configStage = "constructed"
    /\ thisObject = JsUndefined
    /\ fieldRelation = << >>
    /\ resolution = << >>
    /\ dispatched = << >>
    /\ walk = NoWalk

\* The re-render that follows every task: the template reads pagesInfo.
Render ==
    _paginationInfo' = pagesInfo(_recordsListInAllPages', listUndefined',
                                 _startFromIndex', pageSize(_pageSize'), _paginationInfo)

\* Mutant: every call starts two remote calls.
fetchRecordsTwice(props, hide) ==
    /\ fetchesInFlight < MaxInFlight
    /\ fetchesInFlight' = fetchesInFlight + 2
    /\ showSpinner' = handleSpinnerFlag(hide, showSpinner, TRUE)
    /\ tableProps' = [props EXCEPT !.isLoading =
                         handleSpinnerFlag(hide, props.isLoading, TRUE)]

\* fetchRecords: turns the spinner on and starts one remote call (the caller
\* states the user message, which handleSpinner sets to the search message).
fetchRecords(props, hide) ==
    /\ fetchesInFlight < MaxInFlight
    /\ fetchesInFlight' = fetchesInFlight + 1
    /\ showSpinner' = handleSpinnerFlag(hide, showSpinner, TRUE)
    /\ tableProps' = [props EXCEPT !.isLoading =
                         handleSpinnerFlag(hide, props.isLoading, TRUE)]

\* doDataReset: empties the list and the visible page.
doDataReset ==
    /\ _recordsListInAllPages' = << >>
    /\ listUndefined' = FALSE
    /\ recordsListInPage' = << >>

\* ------------------------------------------------------------ initialization
\* connectedCallback: applies the config (the host configures a page size),
\* then either asks for the field metadata (a table config is supplied) or
\* starts the first fetch.
connectedCallback(configPageSize, hasTableConfig, configHideSpinner) ==
    /\ ~_initDone
    /\ _pageSize' = configPageSize
    /\ hideTableSpinner' = configHideSpinner
    /\ IF hasTableConfig
       THEN /\ fieldInfoInFlight' = TRUE
            /\ UNCHANGED << fetchesInFlight, showSpinner, tableProps >>
       ELSE /\ fieldInfoInFlight' = FALSE
            /\ fetchRecords(tableProps, configHideSpinner)
    /\ userMessage' = InitMessage
    /\ _originTagRowSelectionLocal' = DatatableTag
    /\ _initDone' = TRUE
    /\ threw' = FALSE
    /\ UNCHANGED << config, properties, configStage, thisObject, fieldRelation,
                    resolution >>
    /\ dispatched' = << >>
    /\ walk' = NoWalk
    /\ UNCHANGED << _recordsListInAllPages, listUndefined, recordsListInPage,
                    _startFromIndex, selectedRowsMap, selectedRowsPagesMap, error >>
    /\ Render

\* getFieldInfo answers: setTableProperties, then the first fetch.
fieldInfoResolved ==
    /\ fieldInfoInFlight
    /\ fieldInfoInFlight' = FALSE
    /\ fetchRecords([sortedBy |-> "", sortedDirection |-> "",
                     selectedRows |-> << >>, isLoading |-> FALSE],
                    hideTableSpinner)
    /\ userMessage' = SearchMessage
    /\ threw' = FALSE
    /\ UNCHANGED << config, properties, configStage, thisObject, fieldRelation,
                    resolution >>
    /\ dispatched' = << >>
    /\ walk' = NoWalk
    /\ UNCHANGED << _recordsListInAllPages, listUndefined, recordsListInPage,
                    _startFromIndex, _pageSize, selectedRowsMap, selectedRowsPagesMap,
                    _originTagRowSelectionLocal, hideTableSpinner, error, _initDone >>
    /\ Render

\* getFieldInfo fails: the promise has no rejection handler, nothing runs.
fieldInfoRejected ==
    /\ fieldInfoInFlight
    /\ fieldInfoInFlight' = FALSE
    /\ threw' = FALSE
    /\ UNCHANGED << config, properties, configStage, thisObject, fieldRelation,
                    resolution >>
    /\ dispatched' = << >>
    /\ walk' = NoWalk
    /\ UNCHANGED << _recordsListInAllPages, listUndefined, recordsListInPage,
                    _startFromIndex, _pageSize, selectedRowsMap, selectedRowsPagesMap,
                    _originTagRowSelectionLocal, tableProps, hideTableSpinner,
                    showSpinner, userMessage, error, _initDone, fetchesInFlight >>
    /\ Render

\* ------------------------------------------------------------- public api
\* Largest number of characters of a search term.
MaxTermLength == 2

\* The values a host can hand to soslSearchTerm: a string of some length,
\* undefined, and an array, which is no string and has a length too.
SearchTerms ==
    { [typeof |-> "string", length |-> n] : n \in 0..MaxTermLength }
        \cup { [typeof |-> "undefined", length |-> 0],
               [typeof |-> "object", length |-> MaxTermLength] }

\* Mutant: a term of one character is searched for.
startsSearchFromOne(value, initDone) ==
    value.typeof = "string" /\ value.length > 0 /\ initDone

\* soslSearchTerm setter, its test:
\* typeof value === "string" && value.length > 1 && this._initDone
startsSearch(value, initDone) ==
    value.typeof = "string" /\ value.length > 1 /\ initDone

\* soslSearchTerm setter, before or after the component is connected: resets
\* the data, then fetches when the test holds and otherwise turns the spinner
\* off with the minimum-characters message.
setSoslSearchTerm(value) ==
    /\ doDataReset
    /\ IF startsSearch(value, _initDone)
       THEN /\ fetchRecords(doDataResetProps(tableProps), hideTableSpinner)
            /\ userMessage' = SearchMessage
       ELSE /\ showSpinner' = handleSpinnerFlag(hideTableSpinner, showSpinner, FALSE)
            /\ tableProps' = [doDataResetProps(tableProps) EXCEPT !.isLoading =
                                 handleSpinnerFlag(hideTableSpinner, tableProps.isLoading, FALSE)]
            /\ userMessage' = SoslMinCharsError
            /\ UNCHANGED fetchesInFlight
    /\ threw' = FALSE
    /\ UNCHANGED << config, properties, configStage, thisObject, fieldRelation,
                    resolution >>
    /\ dispatched' = << >>
    /\ walk' = NoWalk
    /\ UNCHANGED << _startFromIndex, _pageSize, selectedRowsMap, selectedRowsPagesMap,
                    _originTagRowSelectionLocal, hideTableSpinner, error, _initDone,
                    fieldInfoInFlight >>
    /\ Render

\* queryFilters setter on a connected component: resets the data and fetches.
setQueryFilters ==
    /\ _initDone
    /\ doDataReset
    /\ fetchRecords(doDataResetProps(tableProps), hideTableSpinner)
    /\ userMessage' = SearchMessage
    /\ threw' = FALSE
    /\ UNCHANGED << config, properties, configStage, thisObject, fieldRelation,
                    resolution >>
    /\ dispatched' = << >>
    /\ walk' = NoWalk
    /\ UNCHANGED << _startFromIndex, _pageSize, selectedRowsMap, selectedRowsPagesMap,
                    _originTagRowSelectionLocal, hideTableSpinner, error, _initDone,
                    fieldInfoInFlight >>
    /\ Render

\* refresh(): offset to 0, resets the data and fetches.
refresh ==
    /\ _initDone
    /\ _startFromIndex' = 0
    /\ doDataReset
    /\ fetchRecords(doDataResetProps(tableProps), hideTableSpinner)
    /\ userMessage' = SearchMessage
    /\ threw' = FALSE
    /\ UNCHANGED << config, properties, configStage, thisObject, fieldRelation,
                    resolution >>
    /\ dispatched' = << >>
    /\ walk' = NoWalk
    /\ UNCHANGED << _pageSize, selectedRowsMap, selectedRowsPagesMap,
                    _originTagRowSelectionLocal, hideTableSpinner, error, _initDone,
                    fieldInfoInFlight >>
    /\ Render

\* pageSize setter: stores the value and nothing else.
setPageSize(value) ==
    /\ _initDone
    /\ _pageSize' = value
    /\ threw' = FALSE
    /\ UNCHANGED << config, properties, configStage, thisObject, fieldRelation,
                    resolution >>
    /\ dispatched' = << >>
    /\ walk' = NoWalk
    /\ UNCHANGED << _recordsListInAllPages, listUndefined, recordsListInPage,
                    _startFromIndex, selectedRowsMap, selectedRowsPagesMap,
                    _originTagRowSelectionLocal, tableProps, hideTableSpinner,
                    showSpinner, userMessage, error, _initDone, fieldInfoInFlight,
                    fetchesInFlight >>
    /\ Render

\* --------------------------------------------------------- fetch completion
\* A fetch answers with records: getResolve and processRecordsResult.  A
\* non-empty answer replaces the list, recomputes totalPages and re-slices
\* at the current offset; an empty one resets the data.
fetchResolved(records) ==
    /\ fetchesInFlight > 0
    /\ fetchesInFlight' = fetchesInFlight - 1
    /\ error' = ""
    /\ showSpinner' = handleSpinnerFlag(hideTableSpinner, showSpinner, FALSE)
    /\ listUndefined' = FALSE
    /\ IF Len(records) > 0
       THEN /\ _recordsListInAllPages' = records
            /\ recordsListInPage' =
                   processRecordsListPagination(records, _startFromIndex,
                                                pageSize(_pageSize), FALSE, 0)
            /\ tableProps' = [tableProps EXCEPT
                   !.isLoading = handleSpinnerFlag(hideTableSpinner, @, FALSE),
                   !.selectedRows = processTableRows(recordsListInPage', selectedRowsMap)]
            /\ userMessage' = ""
            /\ _paginationInfo' =
                   pagesInfo(records, FALSE, _startFromIndex, pageSize(_pageSize),
                             [_paginationInfo EXCEPT !.totalPages =
                                  totalPagesOf(Len(records), pageSize(_pageSize))])
            /\ walk' = IF _startFromIndex = 0
                       THEN FreshWalk(recordsListInPage')
                       ELSE NoWalk
       ELSE /\ _recordsListInAllPages' = << >>
            /\ recordsListInPage' = << >>
            /\ tableProps' = [doDataResetProps(tableProps) EXCEPT
                   !.isLoading = handleSpinnerFlag(hideTableSpinner, @, FALSE)]
            /\ userMessage' = NoRecordsMessage
            /\ UNCHANGED _paginationInfo
            /\ walk' = NoWalk
    /\ threw' = FALSE
    /\ UNCHANGED << config, properties, configStage, thisObject, fieldRelation,
                    resolution >>
    /\ dispatched' = << >>
    /\ UNCHANGED << _startFromIndex, _pageSize, selectedRowsMap, selectedRowsPagesMap,
                    _originTagRowSelectionLocal, hideTableSpinner, _initDone,
                    fieldInfoInFlight >>

\* A fetch fails: getReject turns the spinner off, records the error and
\* leaves _recordsListInAllPages undefined.
fetchRejected ==
    /\ fetchesInFlight > 0
    /\ fetchesInFlight' = fetchesInFlight - 1
    /\ showSpinner' = handleSpinnerFlag(hideTableSpinner, showSpinner, FALSE)
    /\ tableProps' = [tableProps EXCEPT
           !.isLoading = handleSpinnerFlag(hideTableSpinner, @, FALSE)]
    /\ userMessage' = ""
    /\ error' = ErrorMessage
    /\ _recordsListInAllPages' = << >>
    /\ listUndefined' = TRUE
    /\ threw' = FALSE
    /\ UNCHANGED << config, properties, configStage, thisObject, fieldRelation,
                    resolution >>
    /\ dispatched' = << >>
    /\ walk' = NoWalk
    /\ UNCHANGED << recordsListInPage, _startFromIndex, _pageSize, selectedRowsMap,
                    selectedRowsPagesMap, _originTagRowSelectionLocal, hideTableSpinner,
                    _initDone, fieldInfoInFlight >>
    /\ Render

\* ------------------------------------------------------- template handlers
\* The row lists the table can report as selected: the rows of the visible
\* page at the positions in some set, in page order.
RowsAt(page, positions) ==
    LET pick[i \in 0..Len(page)] ==
            IF i = 0 THEN << >>
            ELSE IF i \in positions THEN Append(pick[i - 1], page[i])
            ELSE pick[i - 1]
    IN  pick[Len(page)]

SelectableRows(page) ==
    { RowsAt(page, positions) :
        positions \in { P \in SUBSET (1..Len(page)) : Cardinality(P) <= MaxRowSelection } }

\* handleRowSelection: records the rows under the current page number,
\* rebuilds the selection map and dispatches rowselection, unless a page
\* button armed the suppression.
\* At most maxPages page numbers get a recorded selection.
handleRowSelectionWithin(selectedRows, maxPages) ==
    /\ _initDone
    /\ IF _originTagRowSelectionLocal = DatatableTag
       THEN /\ \/ _paginationInfo.currentPage \in DOMAIN selectedRowsPagesMap
               \/ Cardinality(DOMAIN selectedRowsPagesMap) < maxPages
            /\ selectedRowsPagesMap' =
                   [k \in DOMAIN selectedRowsPagesMap \cup {_paginationInfo.currentPage} |->
                       IF k = _paginationInfo.currentPage THEN selectedRows
                       ELSE selectedRowsPagesMap[k]]
            /\ selectedRowsMap' = mergePages(selectedRowsPagesMap')
            /\ dispatched' = << rowselectionDetail(selectedRowsMap') >>
            /\ UNCHANGED _originTagRowSelectionLocal
       ELSE /\ _originTagRowSelectionLocal' = DatatableTag
            /\ dispatched' = << >>
            /\ UNCHANGED << selectedRowsMap, selectedRowsPagesMap >>
    /\ threw' = FALSE
    /\ UNCHANGED << config, properties, configStage, thisObject, fieldRelation,
                    resolution >>
    /\ walk' = NoWalk
    /\ UNCHANGED << _recordsListInAllPages, listUndefined, recordsListInPage,
                    _startFromIndex, _pageSize, tableProps, hideTableSpinner,
                    showSpinner, userMessage, error, _initDone, fieldInfoInFlight,
                    fetchesInFlight >>
    /\ Render

\* handleRowSelection while at most MaxSelectedPages pages hold a recorded
\* selection.
handleRowSelection(selectedRows) ==
    handleRowSelectionWithin(selectedRows, MaxSelectedPages)

\* handleSort: clears the selection, sorts the list in place, offset to 0 and
\* re-slices.  Sorting an undefined list is a TypeError that ends the handler
\* after the selection and the sort indication were written.
handleSort(fieldName, sortDirection) ==
    /\ _initDone
    /\ selectedRowsMap' = << >>
    /\ selectedRowsPagesMap' = << >>
    /\ listUndefined' = listUndefined
    /\ dispatched' = << >>
    /\ UNCHANGED << config, properties, configStage, thisObject, fieldRelation,
                    resolution >>
    /\ IF listUndefined
       THEN /\ threw' = TRUE
            /\ tableProps' = [tableProps EXCEPT !.sortedBy = fieldName,
                                                !.sortedDirection = sortDirection]
            /\ walk' = NoWalk
            /\ UNCHANGED << _recordsListInAllPages, recordsListInPage, _startFromIndex >>
       ELSE /\ threw' = FALSE
            /\ _recordsListInAllPages' \in
                   SortOutcomes(_recordsListInAllPages, fieldName, sortDirection)
            /\ _startFromIndex' = 0
            /\ recordsListInPage' =
                   processRecordsListPagination(_recordsListInAllPages', 0,
                                                pageSize(_pageSize), FALSE, 0)
            /\ tableProps' = [tableProps EXCEPT
                   !.sortedBy = fieldName,
                   !.sortedDirection = sortDirection,
                   !.selectedRows = processTableRows(recordsListInPage', selectedRowsMap')]
            /\ walk' = IF Len(_recordsListInAllPages') > 0
                       THEN FreshWalk(recordsListInPage')
                       ELSE NoWalk
    /\ UNCHANGED << _pageSize, _originTagRowSelectionLocal, hideTableSpinner,
                    showSpinner, userMessage, error, _initDone, fieldInfoInFlight,
                    fetchesInFlight >>
    /\ Render

\* Mutant: the page buttons arm the suppression whatever is selected.
armedTagAlways == ButtonTag

\* The page buttons arm the suppression of the next row-selection event when
\* the page being left has a recorded, non-empty selection.
armedTag ==
    IF /\ _paginationInfo.currentPage \in DOMAIN selectedRowsPagesMap
       /\ Len(selectedRowsPagesMap[_paginationInfo.currentPage]) > 0
    THEN ButtonTag
    ELSE _originTagRowSelectionLocal

\* What a page handler leaves behind: the offset, the visible page, the rows
\* marked selected, the suppression tag, and whether it ended in a TypeError.
Untouched ==
    [startFromIndex |-> _startFromIndex,
     recordsListInPage |-> recordsListInPage,
     selectedRows |-> tableProps.selectedRows,
     originTag |-> _originTagRowSelectionLocal,
     threw |-> FALSE]

\* The window and the selected rows re-derived at a new offset.
Resliced(start, lastSetOfRecords, lastNumberOfRecords, tag) ==
    LET page == processRecordsListPagination(_recordsListInAllPages, start,
                                             pageSize(_pageSize), lastSetOfRecords,
                                             lastNumberOfRecords)
    IN  [startFromIndex |-> start,
         recordsListInPage |-> page,
         selectedRows |-> processTableRows(page, selectedRowsMap),
         originTag |-> tag,
         threw |-> FALSE]

\* The handler stops in a TypeError (the list is undefined) after it wrote
\* the offset and the tag.
Thrown(start, tag) ==
    [Untouched EXCEPT !.startFromIndex = start, !.originTag = tag, !.threw = TRUE]

\* showPreviousPage: one page back while the offset is positive.
showPreviousPageEffect ==
    IF _startFromIndex > 0
    THEN IF listUndefined
         THEN Thrown(_startFromIndex - pageSize(_pageSize), armedTag)
         ELSE Resliced(_startFromIndex - pageSize(_pageSize), FALSE, 0, armedTag)
    ELSE Untouched

\* showNextPage: one page forward while records lie beyond the window.
showNextPageEffect ==
    IF listUndefined
    THEN Thrown(_startFromIndex, _originTagRowSelectionLocal)
    ELSE IF _startFromIndex + pageSize(_pageSize) < Len(_recordsListInAllPages)
         THEN Resliced(_startFromIndex + pageSize(_pageSize), FALSE, 0, armedTag)
         ELSE Untouched

\* showLastPage: to the last page, which is partial when the count is not a
\* multiple of the page size.
showLastPageEffect ==
    IF listUndefined
    THEN Thrown(_startFromIndex, _originTagRowSelectionLocal)
    ELSE LET result == JsRem(Len(_recordsListInAllPages), pageSize(_pageSize))
         IN  IF _startFromIndex >= 0
             THEN IF result = 0
                  THEN Resliced(Len(_recordsListInAllPages) - pageSize(_pageSize),
                                FALSE, 0, _originTagRowSelectionLocal)
                  ELSE Resliced(Len(_recordsListInAllPages) - result, TRUE, 0 - result,
                                _originTagRowSelectionLocal)
             ELSE Untouched

\* pageSizeChanged: doTableRefresh puts the offset to 0, then the window is
\* re-sliced.
pageSizeChangedEffect ==
    IF listUndefined
    THEN Thrown(0, _originTagRowSelectionLocal)
    ELSE Resliced(0, FALSE, 0, _originTagRowSelectionLocal)

\* A page handler runs: its effect is written, the rest is left alone.
Navigate(effect) ==
    /\ _initDone
    /\ _startFromIndex' = effect.startFromIndex
    /\ recordsListInPage' = effect.recordsListInPage
    /\ tableProps' = [tableProps EXCEPT !.selectedRows = effect.selectedRows]
    /\ _originTagRowSelectionLocal' = effect.originTag
    /\ threw' = effect.threw
    /\ UNCHANGED << config, properties, configStage, thisObject, fieldRelation,
                    resolution >>
    /\ dispatched' = << >>
    /\ UNCHANGED << _recordsListInAllPages, listUndefined, _pageSize, selectedRowsMap,
                    selectedRowsPagesMap, hideTableSpinner, showSpinner, userMessage,
                    error, _initDone, fieldInfoInFlight, fetchesInFlight >>
    /\ Render

\* No record lies beyond the window: next does nothing.
AtLastWindow ==
    /\ ~listUndefined
    /\ ~(_startFromIndex + pageSize(_pageSize) < Len(_recordsListInAllPages))

showPreviousPage ==
    /\ Navigate(showPreviousPageEffect)
    /\ walk' = IF walk.stage = "last" THEN [walk EXCEPT !.stage = "previous"] ELSE NoWalk

showNextPage ==
    /\ Navigate(showNextPageEffect)
    /\ walk' = IF walk.stage = "next"
               THEN IF AtLastWindow THEN walk
                    ELSE [walk EXCEPT !.windows = Append(@, recordsListInPage')]
               ELSE NoWalk

showLastPage ==
    /\ Navigate(showLastPageEffect)
    /\ walk' = IF walk.stage = "next" /\ AtLastWindow
               THEN [walk EXCEPT !.stage = "last"]
               ELSE NoWalk

pageSizeChanged ==
    /\ Navigate(pageSizeChangedEffect)
    /\ walk' = IF ~listUndefined /\ Len(_recordsListInAllPages) > 0
               THEN FreshWalk(recordsListInPage')
               ELSE NoWalk

\* ------------------------------------------------------------------- Next
\* The component in a host that supplies a table config, with row selection.
Next ==
    \/ \E configPageSize \in PageSizes, hasTableConfig \in BOOLEAN :
          connectedCallback(configPageSize, hasTableConfig, FALSE)
    \/ fieldInfoResolved
    \/ fieldInfoRejected
    \/ \E value \in SearchTerms : setSoslSearchTerm(value)
    \/ setQueryFilters
    \/ refresh
    \/ \E value \in PageSizes : setPageSize(value)
    \/ \E records \in Responses : fetchResolved(records)
    \/ fetchRejected
    \/ \E selectedRows \in SelectableRows(recordsListInPage) : handleRowSelection(selectedRows)
    \/ \E fieldName \in SortFields, sortDirection \in SortDirections :
          handleSort(fieldName, sortDirection)
    \/ showPreviousPage
    \/ showNextPage
    \/ showLastPage
    \/ pageSizeChanged

Spec == Init /\ [][Next]_vars

\* The same component while its user selects no rows: initialization,
\* loading, sorting and paging.
NextPaging ==
    \/ \E configPageSize \in PageSizes, hasTableConfig \in BOOLEAN :
          connectedCallback(configPageSize, hasTableConfig, FALSE)
    \/ fieldInfoResolved
    \/ fieldInfoRejected
    \/ \E value \in SearchTerms : setSoslSearchTerm(value)
    \/ setQueryFilters
    \/ refresh
    \/ \E value \in PageSizes : setPageSize(value)
    \/ \E records \in Responses : fetchResolved(records)
    \/ fetchRejected
    \/ \E fieldName \in SortFields, sortDirection \in SortDirections :
          handleSort(fieldName, sortDirection)
    \/ showPreviousPage
    \/ showNextPage
    \/ showLastPage
    \/ pageSizeChanged

SpecPaging == Init /\ [][NextPaging]_vars

\* ------------------------------------------------------------ sorting
\* Largest number a sort field holds.
MaxFieldValue == 2

\* What a record can hold in a field: nothing (<< >>) or a number from 0.
FieldValues == { << >> } \cup { << v >> : v \in 0..MaxFieldValue }

\* The column names the table can report in a sort event: a field of the
\* records and a field no record has.
ColumnFields == {"Name", "Missing"}

\* The record lists a query can answer with when the field values and the
\* order of the records are free: records 1..n in any order, each with any
\* field value.
SortInputs ==
    UNION { { [i \in 1..n |-> [Id |-> f[i], Name |-> names[i]]] :
                f \in IndexPermutations(n), names \in [1..n -> FieldValues] } :
            n \in 1..MaxRecords }

\* The component after connectedCallback (no table config) and a first fetch
\* that resolved with the records of some answer.
InitSorting ==
    /\ _recordsListInAllPages \in SortInputs
    /\ listUndefined = FALSE
    /\ _startFromIndex = 0
    /\ _pageSize \in PageSizes
    /\ recordsListInPage =
           processRecordsListPagination(_recordsListInAllPages, 0,
                                        pageSize(_pageSize), FALSE, 0)
    /\ _paginationInfo =
           [currentPage |-> currentPageOf(0, pageSize(_pageSize)),
            totalPages |-> totalPagesOf(Len(_recordsListInAllPages), pageSize(_pageSize))]
    /\ selectedRowsMap = << >>
    /\ selectedRowsPagesMap = << >>
    /\ _originTagRowSelectionLocal = DatatableTag
    /\ tableProps = [sortedBy |-> "", sortedDirection |-> "",
                     selectedRows |-> << >>, isLoading |-> FALSE]
    /\ hideTableSpinner = FALSE
    /\ showSpinner = FALSE
    /\ userMessage = ""
    /\ error = ""
    /\ _initDone = TRUE
    /\ fieldInfoInFlight = FALSE
    /\ fetchesInFlight = 0
    /\ threw = FALSE
    /\ config = << >>
    /\ properties = FieldInitializers
    /\ configStage = "constructed"
    /\ thisObject = JsUndefined
    /\ fieldRelation = << >>
    /\ resolution = << >>
    /\ dispatched = << >>
    /\ walk = FreshWalk(recordsListInPage)

\* The user sorts the loaded list, again and again.
NextSorting ==
    \E fieldName \in ColumnFields, sortDirection \in SortDirections :
        handleSort(fieldName, sortDirection)

SpecSorting == InitSorting /\ [][NextSorting]_vars

\* ---------------------------------------------------------- selecting
\* The component after a load that answered with records, in a host that
\* leaves filters, search term, page size and refresh() alone: the user
\* selects rows on any number of pages, pages and sorts.
InitSelection ==
    /\ _recordsListInAllPages \in Responses \ { << >> }
    /\ listUndefined = FALSE
    /\ _startFromIndex = 0
    /\ _pageSize \in PageSizes
    /\ recordsListInPage =
           processRecordsListPagination(_recordsListInAllPages, 0,
                                        pageSize(_pageSize), FALSE, 0)
    /\ _paginationInfo =
           [currentPage |-> currentPageOf(0, pageSize(_pageSize)),
            totalPages |-> totalPagesOf(Len(_recordsListInAllPages), pageSize(_pageSize))]
    /\ selectedRowsMap = << >>
    /\ selectedRowsPagesMap = << >>
    /\ _originTagRowSelectionLocal = DatatableTag
    /\ tableProps = [sortedBy |-> "", sortedDirection |-> "",
                     selectedRows |-> << >>, isLoading |-> FALSE]
    /\ hideTableSpinner = FALSE
    /\ showSpinner = FALSE
    /\ userMessage = ""
    /\ error = ""
    /\ _initDone = TRUE
    /\ fieldInfoInFlight = FALSE
    /\ fetchesInFlight = 0
    /\ threw = FALSE
    /\ config = << >>
    /\ properties = FieldInitializers
    /\ configStage = "constructed"
    /\ thisObject = JsUndefined
    /\ fieldRelation = << >>
    /\ resolution = << >>
    /\ dispatched = << >>
    /\ walk = FreshWalk(recordsListInPage)

NextSelection ==
    \/ \E selectedRows \in SelectableRows(recordsListInPage) :
          handleRowSelectionWithin(selectedRows, MaxRecords + 1)
    \/ \E fieldName \in SortFields, sortDirection \in SortDirections :
          handleSort(fieldName, sortDirection)
    \/ showPreviousPage
    \/ showNextPage
    \/ showLastPage
    \/ pageSizeChanged

SpecSelection == InitSelection /\ [][NextSelection]_vars

\* ------------------------------------------------------------- configuring
\* The configs of this specification supply one option, a top-level one in
\* the config or a table option in its table config, under the kebab-case
\* key, the camelCase key, or both.
KeyedValues(option) ==
    { [key \in keys |-> values[key]] :
        keys \in SUBSET {option.kebab, option.camel},
        values \in [{option.kebab, option.camel} -> ConfigValues] }

Configs ==
    UNION { KeyedValues([kebab |-> option.kebab, camel |-> option.camel]) :
                option \in TopLevelOptions \cup
                           { [kebab |-> o.kebab, camel |-> o.camel] : o \in TableOptions } }

\* The constructed component, given a config.
InitConfig ==
    /\ _recordsListInAllPages = << >>
    /\ listUndefined = FALSE
    /\ recordsListInPage = << >>
    /\ _startFromIndex = 0
    /\ _pageSize = DefaultPageSize
    /\ _paginationInfo = NoPages
    /\ selectedRowsMap = << >>
    /\ selectedRowsPagesMap = << >>
    /\ _originTagRowSelectionLocal = "undefined"
    /\ tableProps = [sortedBy |-> "", sortedDirection |-> "",
                     selectedRows |-> << >>, isLoading |-> FALSE]
    /\ hideTableSpinner = FALSE
    /\ showSpinner = FALSE
    /\ userMessage = InitMessage
    /\ error = ""
    /\ _initDone = FALSE
    /\ fieldInfoInFlight = FALSE
    /\ fetchesInFlight = 0
    /\ threw = FALSE
    /\ dispatched = << >>
    /\ config \in Configs
    /\ properties = FieldInitializers
    /\ configStage = "constructed"
    /\ thisObject = JsUndefined
    /\ fieldRelation = << >>
    /\ resolution = << >>
    /\ walk = NoWalk

\* connectedCallback, its first statement: the top-level options.
applyConfig ==
    /\ configStage = "constructed"
    /\ properties' = setPropertiesFromConfig(config, properties)
    /\ configStage' = "configured"
    /\ UNCHANGED << _recordsListInAllPages, listUndefined, recordsListInPage,
                    _startFromIndex, _pageSize, _paginationInfo, selectedRowsMap,
                    selectedRowsPagesMap, _originTagRowSelectionLocal, tableProps,
                    hideTableSpinner, showSpinner, userMessage, error, _initDone,
                    fieldInfoInFlight, fetchesInFlight, threw, dispatched, config,
                    thisObject, fieldRelation, resolution, walk >>

\* The field metadata answer: the table options.
applyTableConfig ==
    /\ configStage = "configured"
    /\ properties' = setTableProperties(config, properties)
    /\ configStage' = "tabled"
    /\ UNCHANGED << _recordsListInAllPages, listUndefined, recordsListInPage,
                    _startFromIndex, _pageSize, _paginationInfo, selectedRowsMap,
                    selectedRowsPagesMap, _originTagRowSelectionLocal, tableProps,
                    hideTableSpinner, showSpinner, userMessage, error, _initDone,
                    fieldInfoInFlight, fetchesInFlight, threw, dispatched, config,
                    thisObject, fieldRelation, resolution, walk >>

NextConfig == applyConfig \/ applyTableConfig

SpecConfig == InitConfig /\ [][NextConfig]_vars

\* --------------------------------------------------------------- resolving
\* The constructed component with a record and a path for the resolvers.
InitResolve ==
    /\ _recordsListInAllPages = << >>
    /\ listUndefined = FALSE
    /\ recordsListInPage = << >>
    /\ _startFromIndex = 0
    /\ _pageSize = DefaultPageSize
    /\ _paginationInfo = NoPages
    /\ selectedRowsMap = << >>
    /\ selectedRowsPagesMap = << >>
    /\ _originTagRowSelectionLocal = "undefined"
    /\ tableProps = [sortedBy |-> "", sortedDirection |-> "",
                     selectedRows |-> << >>, isLoading |-> FALSE]
    /\ hideTableSpinner = FALSE
    /\ showSpinner = FALSE
    /\ userMessage = InitMessage
    /\ error = ""
    /\ _initDone = FALSE
    /\ fieldInfoInFlight = FALSE
    /\ fetchesInFlight = 0
    /\ threw = FALSE
    /\ dispatched = << >>
    /\ config = << >>
    /\ properties = FieldInitializers
    /\ configStage = "constructed"
    /\ thisObject \in RecordShapes
    /\ fieldRelation \in FieldRelations
    /\ resolution = << >>
    /\ walk = NoWalk

\* Both resolvers are called with the record and the path.
resolve ==
    /\ resolution = << >>
    /\ resolution' = << [sorting |-> relatedFieldValueAlong(thisObject, fieldRelation),
                         display |-> getFieldValueFromObject(thisObject, fieldRelation)] >>
    /\ UNCHANGED << _recordsListInAllPages, listUndefined, recordsListInPage,
                    _startFromIndex, _pageSize, _paginationInfo, selectedRowsMap,
                    selectedRowsPagesMap, _originTagRowSelectionLocal, tableProps,
                    hideTableSpinner, showSpinner, userMessage, error, _initDone,
                    fieldInfoInFlight, fetchesInFlight, threw, dispatched, config,
                    properties, configStage, thisObject, fieldRelation, walk >>

NextResolve == resolve

SpecResolve == InitResolve /\ [][NextResolve]_vars

\* ----------------------------------------------------------------- loading
\* The answer of the field metadata call: success or failure.
FieldInfoAnswers == fieldInfoResolved \/ fieldInfoRejected

\* The answer of a fetch: records (none included) or failure.
FetchAnswers ==
    \/ \E records \in Responses : fetchResolved(records)
    \/ fetchRejected

\* The component in a host that configures it, connects it, and changes the
\* filters or calls refresh() when it likes, while its user leaves the table
\* alone.
NextLoading ==
    \/ \E configPageSize \in PageSizes, hasTableConfig \in BOOLEAN,
          configHideSpinner \in BOOLEAN :
          connectedCallback(configPageSize, hasTableConfig, configHideSpinner)
    \/ FieldInfoAnswers
    \/ FetchAnswers
    \/ setQueryFilters
    \/ refresh

\* Every remote call answers in the end: a call in flight is a promise the
\* platform settles, and its callbacks run as soon as it is settled.
SpecLoading ==
    /\ Init
    /\ [][NextLoading]_vars
    /\ WF_vars(FieldInfoAnswers)
    /\ WF_vars(FetchAnswers)

\* ------------------------------------------------------ terms of the claims
\* The terms below are those of the specification, defined without the
\* program's arithmetic and slicing.
\* The Full Result Set: an undefined list holds no records.
FullResultSet == IF listUndefined THEN << >> ELSE _recordsListInAllPages

Abs(a) == IF a < 0 THEN 0 - a ELSE a

\* ceil(a / p) for an integer a and p > 0.
CeilDiv(a, p) ==
    CHOOSE k \in (0 - Abs(a))..Abs(a) : k * p >= a /\ (k - 1) * p < a

\* The records of list at the 0-based positions offset <= i < offset + size.
Window(list, offset, size) ==
    LET from == Max(offset, 0) + 1
        to   == Min(offset + size, Len(list))
    IN  IF from > to THEN << >> ELSE SubSeq(list, from, to)

Concat(windows) ==
    LET upTo[i \in 0..Len(windows)] ==
            IF i = 0 THEN << >> ELSE upTo[i - 1] \o windows[i]
    IN  upTo[Len(windows)]

Last(seq) == seq[Len(seq)]

\* ------------------------------------------------------------------ claims
\* C1: whenever the Full Result Set is non-empty, currentPage is
\* ceil((offset + 1) / pageSize) and totalPages is ceil(total / pageSize) for
\* the current record count and the current page size.
C1_PaginationInvariant ==
    Len(FullResultSet) > 0 =>
        /\ _paginationInfo.currentPage = CeilDiv(_startFromIndex + 1, pageSize(_pageSize))
        /\ _paginationInfo.totalPages = CeilDiv(Len(FullResultSet), pageSize(_pageSize))

\* C2: every load of a non-empty record list puts the offset to 0 and shows
\* the first window of the new list.
C2_LoadResetsOffset ==
    [][ \A records \in Responses :
            (Len(records) > 0 /\ fetchResolved(records)) =>
                /\ _startFromIndex' = 0
                /\ recordsListInPage' = Window(records, 0, pageSize(_pageSize')) ]_vars

\* C3: the offset is never negative.
C3_OffsetNonNegative == _startFromIndex >= 0

\* C4: right after the load of a non-empty list of count records, totalPages
\* is ceil(count / pageSize), also when count is a multiple of pageSize.
C4_TotalPagesAfterLoad ==
    [][ \A records \in Responses :
            (Len(records) > 0 /\ fetchResolved(records)) =>
                _paginationInfo'.totalPages = CeilDiv(Len(records), pageSize(_pageSize')) ]_vars

\* C4 witness: two records were loaded at page size 2, an exact multiple, and
\* the page count is 1 (not 2).
C4_ExactMultipleLoaded ==
    /\ ~listUndefined
    /\ Len(_recordsListInAllPages) = 2
    /\ pageSize(_pageSize) = 2
    /\ _paginationInfo.totalPages = 1
    /\ walk = FreshWalk(recordsListInPage)
    /\ userMessage = ""
    /\ error = ""
    /\ fetchesInFlight = 0

\* C5: for a non-empty Full Result Set, last shows a non-empty page that is
\* the tail of the list, of count mod pageSize rows when that is not 0 and of
\* pageSize rows otherwise, and the offset is the index of its first record.
C5_LastShowsTail ==
    LET count == Len(FullResultSet)
        rest  == count % pageSize(_pageSize)
        rows  == IF rest # 0 THEN rest ELSE pageSize(_pageSize)
        after == showLastPageEffect
    IN  count > 0 =>
            /\ after.recordsListInPage # << >>
            /\ after.recordsListInPage = SubSeq(FullResultSet, count - rows + 1, count)
            /\ after.startFromIndex = count - rows

\* C6: previous moves the offset back by exactly pageSize and shows the
\* window at the new offset when the offset is positive, and changes nothing
\* when the offset is 0.
C6_PreviousStepsBack ==
    LET after == showPreviousPageEffect
    IN  /\ _startFromIndex > 0 =>
            /\ after.startFromIndex = _startFromIndex - pageSize(_pageSize)
            /\ after.recordsListInPage =
                   Window(FullResultSet, after.startFromIndex, pageSize(_pageSize))
        /\ _startFromIndex = 0 => after = Untouched

\* C7: next moves the offset forward by exactly pageSize when a record lies
\* beyond the window (offset + pageSize < count) and changes nothing
\* otherwise; the window it moves to is never empty.
C7_NextStepsForward ==
    LET after == showNextPageEffect
    IN  IF _startFromIndex + pageSize(_pageSize) < Len(FullResultSet)
        THEN /\ after.startFromIndex = _startFromIndex + pageSize(_pageSize)
             /\ after.recordsListInPage # << >>
             /\ after.recordsListInPage =
                    Window(FullResultSet, after.startFromIndex, pageSize(_pageSize))
        ELSE /\ after.startFromIndex = _startFromIndex
             /\ after.recordsListInPage = recordsListInPage

\* C8: from offset 0, next after next shows ceil(n / p) windows whose
\* concatenation is the list in order; last then shows the same window as the
\* final next, and previous from there the full window before it.
C8_WalkCoversList ==
    LET n       == Len(_recordsListInAllPages)
        p       == pageSize(_pageSize)
        windows == walk.windows
        shown   == Concat(windows)
    IN  /\ walk.stage = "next" =>
            /\ ~listUndefined
            /\ shown = SubSeq(_recordsListInAllPages, 1, _startFromIndex + Len(recordsListInPage))
            /\ recordsListInPage = Last(windows)
        /\ (walk.stage = "next" /\ AtLastWindow) =>
            /\ shown = _recordsListInAllPages
            /\ Len(windows) = CeilDiv(n, p)
        /\ walk.stage = "last" =>
            /\ shown = _recordsListInAllPages
            /\ recordsListInPage = Last(windows)
            /\ _startFromIndex = n - Len(Last(windows))
        /\ (walk.stage = "previous" /\ Len(windows) >= 2) =>
            /\ recordsListInPage = windows[Len(windows) - 1]
            /\ Len(recordsListInPage) = p
            /\ _startFromIndex = n - Len(Last(windows)) - p

\* C8 witness: 3 records at page size 2 were walked as pages of 2 and 1, last
\* stayed on the final page and previous went back to the first.
C8_WalkedToEndAndBack ==
    /\ walk.stage = "previous"
    /\ Len(walk.windows) = 2
    /\ Len(walk.windows[2]) = 1
    /\ Len(_recordsListInAllPages) = 3
    /\ pageSize(_pageSize) = 2
    /\ _startFromIndex = 0
    /\ Len(recordsListInPage) = 2

\* C9: the visible page is the slice [offset, offset + pageSize) of the Full
\* Result Set and holds no record that is not in the Full Result Set.
C9_PageIsWindow ==
    /\ recordsListInPage = Window(FullResultSet, _startFromIndex, pageSize(_pageSize))
    /\ \A i \in 1..Len(recordsListInPage) :
           \E j \in 1..Len(FullResultSet) : FullResultSet[j] = recordsListInPage[i]

\* C10: setting the page size to n puts the offset to 0 and shows the first
\* min(n, count) records of the Full Result Set.
C10_PageSizeResetsWindow ==
    [][ \A value \in PageSizes :
            setPageSize(value) =>
                /\ _startFromIndex' = 0
                /\ recordsListInPage' =
                       Window(IF listUndefined' THEN << >> ELSE _recordsListInAllPages',
                              0, value) ]_vars

\* --------------------------------------------------------- claims on sorting
\* The sort field of a row is absent: the row has no such field.
FieldAbsent(row, field) ==
    field \notin DOMAIN row \/ row[field] = << >>

\* The present value of the sort field of a row.
FieldValue(row, field) == row[field][1]

\* The list was sorted, by the field and in the direction tableProps shows.
Sorted == ~listUndefined /\ tableProps.sortedBy # ""

\* C11: after a sort, every row whose sort field is absent stands after every
\* row whose sort field has a present value.
C11_AbsentRowsLast ==
    Sorted =>
        \A i, j \in 1..Len(_recordsListInAllPages) :
            (/\ FieldAbsent(_recordsListInAllPages[i], tableProps.sortedBy)
             /\ ~FieldAbsent(_recordsListInAllPages[j], tableProps.sortedBy)) => j < i

\* C12: after a sort, the rows with a present value (0 included) stand in
\* the natural order of the value: non-decreasing for asc, non-increasing
\* for desc.
C12_PresentValuesOrdered ==
    Sorted =>
        \A i, j \in 1..Len(_recordsListInAllPages) :
            (/\ i < j
             /\ ~FieldAbsent(_recordsListInAllPages[i], tableProps.sortedBy)
             /\ ~FieldAbsent(_recordsListInAllPages[j], tableProps.sortedBy)) =>
                IF tableProps.sortedDirection = "asc"
                THEN FieldValue(_recordsListInAllPages[i], tableProps.sortedBy)
                         <= FieldValue(_recordsListInAllPages[j], tableProps.sortedBy)
                ELSE FieldValue(_recordsListInAllPages[i], tableProps.sortedBy)
                         >= FieldValue(_recordsListInAllPages[j], tableProps.sortedBy)

\* C13: after a sort, rows with the same present value stand by ascending Id
\* for asc and by descending Id for desc.
C13_TiesByIdent ==
    Sorted =>
        \A i, j \in 1..Len(_recordsListInAllPages) :
            (/\ i < j
             /\ ~FieldAbsent(_recordsListInAllPages[i], tableProps.sortedBy)
             /\ ~FieldAbsent(_recordsListInAllPages[j], tableProps.sortedBy)
             /\ FieldValue(_recordsListInAllPages[i], tableProps.sortedBy)
                    = FieldValue(_recordsListInAllPages[j], tableProps.sortedBy)) =>
                IF tableProps.sortedDirection = "asc"
                THEN _recordsListInAllPages[i].Id < _recordsListInAllPages[j].Id
                ELSE _recordsListInAllPages[i].Id > _recordsListInAllPages[j].Id

\* C14: after a sort by a field no record has, the list stands in ascending
\* Id order, whatever its order was.
C14_MissingFieldFallsBackToIdent ==
    (Sorted /\ \A i \in 1..Len(_recordsListInAllPages) :
                   FieldAbsent(_recordsListInAllPages[i], tableProps.sortedBy)) =>
        \A i, j \in 1..Len(_recordsListInAllPages) :
            i < j => _recordsListInAllPages[i].Id < _recordsListInAllPages[j].Id

\* C15: sorting again by the same field in the same direction leaves the
\* order of the list as the first sort left it.
C15_SortIdempotent ==
    [][ \A fieldName \in ColumnFields, sortDirection \in SortDirections :
            (/\ Sorted
             /\ tableProps.sortedBy = fieldName
             /\ tableProps.sortedDirection = sortDirection
             /\ handleSort(fieldName, sortDirection)) =>
                _recordsListInAllPages' = _recordsListInAllPages ]_vars

\* ------------------------------------------------------- claims on selection
\* The Ids of the rows of a page.
IdsOf(page) == { page[i].Id : i \in 1..Len(page) }

\* C16: every sort event empties the Selection Map and the per-page record,
\* puts the offset to 0 and shows the first window of the sorted list with no
\* row marked selected.
C16_SortClearsSelection ==
    [][ \A fieldName \in SortFields, sortDirection \in SortDirections :
            handleSort(fieldName, sortDirection) =>
                /\ selectedRowsMap' = << >>
                /\ selectedRowsPagesMap' = << >>
                /\ _startFromIndex' = 0
                /\ recordsListInPage' =
                       Window(IF listUndefined' THEN << >> ELSE _recordsListInAllPages',
                              0, pageSize(_pageSize'))
                /\ tableProps'.selectedRows = << >> ]_vars

\* C18: a selection event handled while a page is showing never removes from
\* the selection map an Id contributed by a selection made on a different
\* page (an Id of the map whose record is in the loaded list but not on the
\* visible page), also after the page size has been changed in between.
C18_OtherPagesKept ==
    [][ \A selectedRows \in SelectableRows(recordsListInPage) :
            handleRowSelection(selectedRows) =>
                \A id \in DOMAIN selectedRowsMap \cap IdsOf(FullResultSet) :
                    id \notin IdsOf(recordsListInPage) => id \in DOMAIN selectedRowsMap' ]_vars

\* C19: the selection map is cleared on every data reset: after refresh(), a
\* queryFilters change, a soslSearchTerm change, or a fetch that returns an
\* empty result, getSelectedRows() returns an empty map.
C19_ResetClearsSelection ==
    [][ ( \/ refresh
          \/ setQueryFilters
          \/ \E value \in SearchTerms : setSoslSearchTerm(value)
          \/ fetchResolved(<< >>) )
        => selectedRowsMap' = << >> ]_vars

\* C20: every Id in the selection map is the Id of a record that was part
\* of the visible page at some earlier point of the run, and the map starts
\* empty at initialization: the map is empty in the first state, and a step
\* only adds Ids of the records of the page that is visible when it is taken.
C20_SelectedWereShown ==
    /\ selectedRowsMap = << >>
    /\ [][ DOMAIN selectedRowsMap' \subseteq
               DOMAIN selectedRowsMap \cup IdsOf(recordsListInPage) ]_vars

\* A record selected on a page that is no longer the visible one.
C20_SelectedOnEarlierPage ==
    /\ recordsListInPage # << >>
    /\ \E id \in DOMAIN selectedRowsMap : id \notin IdsOf(recordsListInPage)

\* C21: getSelectedRows() returns the full cross-page selection: in every
\* reachable state the selection map is the union, keyed by Id, of the rows
\* recorded for each page, and a rowselection event raised to the host
\* carries exactly that map.
C21_MapIsUnionOfPages ==
    /\ DOMAIN selectedRowsMap = { r.Id : r \in RowsOfPages(selectedRowsPagesMap) }
    /\ \A id \in DOMAIN selectedRowsMap :
          /\ selectedRowsMap[id] \in RowsOfPages(selectedRowsPagesMap)
          /\ selectedRowsMap[id].Id = id
    /\ dispatched # << >> =>
          /\ dispatched[1].selectedRowsMap = selectedRowsMap
          /\ dispatched[1].selectedRows = RowsOfPages(selectedRowsPagesMap)

\* An event raised while two pages hold a recorded, non-empty selection.
C21_EventOverTwoPages ==
    /\ dispatched # << >>
    /\ \E j, k \in DOMAIN selectedRowsPagesMap :
          /\ j # k
          /\ selectedRowsPagesMap[j] # << >>
          /\ selectedRowsPagesMap[k] # << >>

\* The Ids tableProps.selectedRows marks as selected.
MarkedIds(props) == { props.selectedRows[i] : i \in 1..Len(props.selectedRows) }

\* C22: after every load, sort, navigation or page-size event, the rows marked
\* selected on the visible page (tableProps.selectedRows) are exactly the Ids
\* of the visible page that are keys of the selection map.
C22_MarkedAreSelectedOnPage ==
    [][ ( \/ \E records \in Responses : fetchResolved(records)
          \/ \E fieldName \in SortFields, sortDirection \in SortDirections :
                handleSort(fieldName, sortDirection)
          \/ showPreviousPage
          \/ showNextPage
          \/ showLastPage
          \/ pageSizeChanged )
        => MarkedIds(tableProps') = IdsOf(recordsListInPage') \cap DOMAIN selectedRowsMap' ]_vars

\* C23: when a fetch fails, the in-memory list holds no records, the error
\* field is set to a message and the loading indicator is off; the next
\* successful fetch clears the error field, and nothing else writes it, so it
\* is set exactly when the most recently completed fetch failed.
C23_ErrorFollowsLastFetch ==
    /\ error = ""
    /\ [][ /\ fetchRejected =>
                /\ FullResultSet' = << >>
                /\ error' # ""
                /\ ~showSpinner'
                /\ ~tableProps'.isLoading
           /\ (\E records \in Responses : fetchResolved(records)) => error' = ""
           /\ ~(fetchRejected \/ \E records \in Responses : fetchResolved(records))
                => error' = error ]_vars

\* A failed fetch behind the component: the error is set, the list is gone
\* and the page of the earlier load is still showing.
C23_FetchFailedAfterLoad ==
    /\ error # ""
    /\ listUndefined
    /\ recordsListInPage # << >>

\* C24: a fetch that completes with an empty or absent record list is not an
\* error: it leaves the full result set and the visible page empty, sets the
\* user message to the no-records message, turns the loading indicator off
\* and leaves the error field unset.
C24_EmptyResultIsNoError ==
    [][ fetchResolved(<< >>) =>
            /\ ~listUndefined'
            /\ _recordsListInAllPages' = << >>
            /\ recordsListInPage' = << >>
            /\ userMessage' = "NO RECORDS FOUND"
            /\ ~showSpinner'
            /\ ~tableProps'.isLoading
            /\ error' = "" ]_vars

\* An empty result behind the component, after a load that had records.
C24_EmptyAfterRecords ==
    /\ userMessage = "NO RECORDS FOUND"
    /\ ~listUndefined
    /\ _recordsListInAllPages = << >>
    /\ _paginationInfo.totalPages > 0

\* C25: overlapping fetches resolve independently and the last one to resolve
\* overwrites state: once every fetch has completed, the full result set,
\* the visible page, the error field and the user message reflect only the
\* outcome (records, empty, or error) of the fetch that resolved last.
C25_LastToResolveWins ==
    [][ /\ (fetchRejected /\ fetchesInFlight' = 0) =>
                /\ FullResultSet' = << >>
                /\ recordsListInPage' = << >>
                /\ error' # ""
                /\ userMessage' = ""
           /\ \A records \in Responses :
                (fetchResolved(records) /\ fetchesInFlight' = 0) =>
                    /\ FullResultSet' = records
                    /\ IdsOf(recordsListInPage') \subseteq IdsOf(records)
                    /\ error' = ""
                    /\ userMessage' = (IF records = << >> THEN NoRecordsMessage ELSE "") ]_vars

\* A search term that is a string of at least two characters.
LongEnough(value) == value.typeof = "string" /\ value.length >= 2

\* The step in which initialization starts its fetch: connectedCallback
\* without a table config, the field metadata answer with one.
InitializationFetch ==
    \/ \E configPageSize \in PageSizes, configHideSpinner \in BOOLEAN :
          connectedCallback(configPageSize, FALSE, configHideSpinner)
    \/ fieldInfoResolved

C27_EmptyListNavigates ==
    (_initDone /\ FullResultSet = << >>) =>
        /\ pagesInfoShown(_recordsListInAllPages, listUndefined, _startFromIndex,
                          pageSize(_pageSize), _paginationInfo).totalPages = 0
        /\ \A effect \in { showPreviousPageEffect, showNextPageEffect, showLastPageEffect } :
              /\ ~effect.threw
              /\ effect.recordsListInPage = << >>

\* The values a config supplies for an option, under either key.
Supplied(option) ==
    { config[key] : key \in {option.kebab, option.camel} \cap DOMAIN config }

\* C28: for every top-level option and every table option with a kebab-case
\* and a camelCase key, supplying the option under either key sets the
\* normalized property to exactly the supplied value (also when that value
\* is false, 0 or an empty string), and supplying neither leaves the default.
C28_OptionsNormalized ==
    /\ configStage # "constructed" =>
          \A option \in TopLevelOptions :
              IF Supplied(option) = {}
              THEN properties[option.camel] = FieldInitializers[option.camel]
              ELSE properties[option.camel] \in Supplied(option)
    /\ configStage = "tabled" =>
          \A option \in TableOptions :
              IF Supplied(option) = {}
              THEN properties[option.camel] = option.default
              ELSE properties[option.camel] \in Supplied(option)

\* The value at the end of a path whose every segment exists, undefined when
\* some segment is missing or an intermediate value is not an object.
RECURSIVE Nested(_, _)
Nested(value, segments) ==
    IF segments = << >> THEN value
    ELSE IF value.kind = "object" /\ Head(segments) \in DOMAIN value.fields
         THEN Nested(value.fields[Head(segments)], Tail(segments))
         ELSE JsUndefined

Absent(value) == value.kind \in {"undefined", "null"}

\* C29: dotted-path resolution is total and leaves the record alone; a
\* missing or null intermediate value gives the absent outcome, and when
\* every segment exists the result is the nested value; the resolver used
\* for sorting and the one used for display agree on present versus absent
\* for every record and path.
C29_ResolversAgree ==
    resolution # << >> =>
        LET nested == Nested(thisObject, fieldRelation)
        IN  /\ Absent(nested) =>
                  /\ Absent(resolution[1].sorting)
                  /\ Absent(resolution[1].display)
            /\ ~Absent(nested) =>
                  /\ resolution[1].sorting = nested
                  /\ resolution[1].display = nested
            /\ Absent(resolution[1].sorting) <=> Absent(resolution[1].display)

\* How many records of a list carry an Id.
CountOf(list, id) == Cardinality({ i \in 1..Len(list) : list[i].Id = id })

\* C30: sort and navigation preserve the data: a sort changes the full
\* result set only by permuting it (the multiset of record Ids is unchanged),
\* and previous, next, last, page-size change and row selection leave its
\* content and order unchanged.
C30_DataPreserved ==
    [][ IF \E fieldName \in SortFields, sortDirection \in SortDirections :
               handleSort(fieldName, sortDirection)
        THEN /\ Len(FullResultSet') = Len(FullResultSet)
             /\ \A id \in IdsOf(FullResultSet) \cup IdsOf(FullResultSet') :
                    CountOf(FullResultSet', id) = CountOf(FullResultSet, id)
        ELSE /\ _recordsListInAllPages' = _recordsListInAllPages
             /\ listUndefined' = listUndefined ]_vars

\* A sorted list whose records are no longer in the order they were loaded
\* in, with the second page of it showing.
C30_PermutedAndPaged ==
    /\ ~listUndefined
    /\ _startFromIndex > 0
    /\ \E i, j \in 1..Len(_recordsListInAllPages) :
          i < j /\ _recordsListInAllPages[i].Id > _recordsListInAllPages[j].Id

\* C31: whenever the Full Result Set is non-empty and no fetch is in flight,
\* the visible page is non-empty: no sequence of navigation, sort, page-size
\* change, filter change, search and refresh leaves a blank page while
\* records exist.
C31_NoBlankPage ==
    (Len(FullResultSet) > 0 /\ fetchesInFlight = 0) => Len(recordsListInPage) > 0

\* C32: with the table spinner enabled (hideTableSpinner false), the loading
\* indicator is on exactly when at least one fetch is in flight: on when a
\* fetch starts, on while any overlapping fetch is unresolved, off once every
\* issued fetch has resolved or failed.
C32_SpinnerTracksFetches ==
    ~hideTableSpinner =>
        /\ showSpinner <=> fetchesInFlight > 0
        /\ tableProps.isLoading <=> fetchesInFlight > 0

\* C33: initialization issues exactly one record fetch: connectedCallback
\* starts it itself when no table config is supplied, and with a table config
\* it starts none of its own and the one fetch of initialization is started
\* when the field metadata call ends.
C33_OneInitializationFetch ==
    [][ /\ \A configPageSize \in PageSizes, configHideSpinner \in BOOLEAN :
              /\ connectedCallback(configPageSize, FALSE, configHideSpinner) =>
                    fetchesInFlight' = fetchesInFlight + 1
              /\ connectedCallback(configPageSize, TRUE, configHideSpinner) =>
                    fetchesInFlight' = fetchesInFlight
        /\ (fieldInfoInFlight /\ ~fieldInfoInFlight') =>
              fetchesInFlight' = fetchesInFlight + 1 ]_vars

\* C34: when a table config is supplied, no record fetch is started and no
\* fetch result is processed before the field metadata answer has been
\* applied to the columns, also when queryFilters or soslSearchTerm is
\* changed or refresh() is called while the metadata call is in flight.
\* While the metadata call is in flight no fetch is in flight, so that none
\* was started and none can answer.
C34_NoFetchBeforeMetadata == fieldInfoInFlight => fetchesInFlight = 0

\* C35: after the component is connected, provided every remote call answers
\* in the end (with success or with failure), a record fetch is eventually
\* started and the table eventually leaves its initial 'Please wait...' state
\* for a state showing records, the no-records message or an error.
C35_EventuallyLoaded ==
    /\ (_initDone /\ userMessage = InitMessage) ~> (fetchesInFlight > 0)
    /\ (_initDone /\ userMessage = InitMessage) ~>
           \/ Len(recordsListInPage) > 0
           \/ userMessage = NoRecordsMessage
           \/ error # ""

\* C36: setting soslSearchTerm always empties the Full Result Set and the
\* visible page; a fetch is then started only if the value is a string of at
\* least 2 characters and initialization is done, and otherwise no fetch is
\* started, the loading indicator is off and the user message is the
\* minimum-characters message.
C36_SearchTermResetsThenFetches ==
    [][ \A value \in SearchTerms :
            setSoslSearchTerm(value) =>
                /\ FullResultSet' = << >>
                /\ recordsListInPage' = << >>
                /\ IF LongEnough(value) /\ _initDone
                   THEN fetchesInFlight' = fetchesInFlight + 1
                   ELSE /\ fetchesInFlight' = fetchesInFlight
                        /\ ~showSpinner'
                        /\ ~tableProps'.isLoading
                        /\ userMessage' = "Please enter at least 2 characters to search" ]_vars

\* A term too short to search, set on a table that had records loaded and
\* nothing in flight: the list and the page are empty, the page count of the
\* last load is still there.
C36_ShortTermAfterRecords ==
    /\ userMessage = SoslMinCharsError
    /\ _recordsListInAllPages = << >>
    /\ recordsListInPage = << >>
    /\ _paginationInfo.totalPages > 0
    /\ fetchesInFlight = 0

\* The page the component is on has a recorded selection, and it is not
\* empty: selections are recorded under the current page number.
CurrentPageHasSelection ==
    \E page \in DOMAIN selectedRowsPagesMap :
        /\ page = _paginationInfo.currentPage
        /\ selectedRowsPagesMap[page] # << >>

\* C37: the suppression flag is armed only by previous or next when the page
\* being left has a non-empty recorded selection; while armed, the first
\* following row-selection event is ignored (Selection Map unchanged, no
\* rowselection event dispatched) and re-arms normal handling, so that every
\* later row-selection event updates the Selection Map; a row-selection event
\* is never ignored when no navigation preceded it.
C37_SuppressionProtocol ==
    [][ /\ (_originTagRowSelectionLocal # ButtonTag /\ _originTagRowSelectionLocal' = ButtonTag) =>
              /\ showPreviousPage \/ showNextPage
              /\ CurrentPageHasSelection
        /\ \A selectedRows \in SelectableRows(recordsListInPage) :
              handleRowSelectionWithin(selectedRows, MaxRecords + 1) =>
                  /\ _originTagRowSelectionLocal' = DatatableTag
                  /\ IF _originTagRowSelectionLocal = ButtonTag
                     THEN /\ selectedRowsMap' = selectedRowsMap
                          /\ selectedRowsPagesMap' = selectedRowsPagesMap
                          /\ dispatched' = << >>
                     ELSE /\ selectedRowsPagesMap'[_paginationInfo.currentPage] = selectedRows
                          /\ \A row \in RowsOfPages(selectedRowsPagesMap') :
                                 row.Id \in DOMAIN selectedRowsMap'
                          /\ dispatched' # << >> ]_vars

\* The flag armed by a page button that left a page with a selection for a
\* later page: the next row-selection event will be ignored.
C37_ArmedOnLaterPage ==
    /\ _originTagRowSelectionLocal = ButtonTag
    /\ _startFromIndex > 0
    /\ selectedRowsMap # << >>
    /\ recordsListInPage # << >>

====
